---- MODULE Spec2Model ----
(***************************************************************************)
(* Model of the Tanebi MCP server (src/src/index.ts): configuration load   *)
(* and key check, registration of the three tools, transport connection,   *)
(* tool invocations translated to HTTP requests, and the text formatters.  *)
(* Text is modelled by TLA+ strings, built by the concatenations of the    *)
(* source.                                                                 *)
(***************************************************************************)
EXTENDS Integers, Sequences, FiniteSets, TLC

\* ------------------------------------------------------------------------
\* Bounds
\* ------------------------------------------------------------------------

\* number of tool invocations the host sends in one run
MaxInv == 2
\* longest `lines` array of an IdeaDetail given to the formatter
MaxLines == 3
\* largest `position` of a line
MaxPos == 3
\* number of times a formatter is applied to the same object
MaxCalls == 2

\* ------------------------------------------------------------------------
\* JavaScript values
\* ------------------------------------------------------------------------

\* a JSON value given by the host as a tool argument: a number n/d, a
\* string s, or undefined (argument absent)
Num(n) == [type |-> "number", n |-> n, d |-> 1, s |-> ""]
Frac(n, d) == [type |-> "number", n |-> n, d |-> d, s |-> ""]
Str(s) == [type |-> "string", n |-> 0, d |-> 1, s |-> s]
Undefined == [type |-> "undefined", n |-> 0, d |-> 1, s |-> ""]

\* JavaScript truthiness of a string-or-undefined value
Truthy(v) == v.type = "string" /\ v.s # ""

\* String.prototype.replace(/\/+$/, ""): drop the trailing slashes
RECURSIVE StripTrailingSlashes(_)
StripTrailingSlashes(s) ==
  IF Len(s) > 0 /\ SubSeq(s, Len(s), Len(s)) = "/"
  THEN StripTrailingSlashes(SubSeq(s, 1, Len(s) - 1))
  ELSE s

\* t occurs in s
Contains(s, t) ==
  \E k \in 0..(Len(s) - Len(t)) : SubSeq(s, k + 1, k + Len(t)) = t

\* Array.prototype.join over a sequence of strings
RECURSIVE Join(_, _)
Join(parts, sep) ==
  IF Len(parts) = 0 THEN ""
  ELSE IF Len(parts) = 1 THEN parts[1]
  ELSE parts[1] \o sep \o Join(Tail(parts), sep)

\* ------------------------------------------------------------------------
\* Formatters
\* ------------------------------------------------------------------------

FormatIdeaSummary(idea) ==
  Join(<< "[ID: " \o ToString(idea.id) \o "] " \o idea.title,
          "  Stage: " \o idea.current_stage \o " | Visibility: " \o idea.visibility,
          "  Author: " \o idea.user.display_name,
          "  Reactions: " \o ToString(idea.reactions_count)
             \o " | Comments: " \o ToString(idea.comments_count),
          "  Created: " \o idea.created_at >>, "\n")

\* a comparator with its operands exchanged
LineCompareDescending(a, b) == b.position - a.position

\* the comparator given to sort: (a, b) => a.position - b.position
LineCompare(a, b) == a.position - b.position

\* Array.prototype.sort is stable: an element goes before the elements the
\* comparator puts strictly after it, and after the others
RECURSIVE InsertLine(_, _)
InsertLine(sorted, x) ==
  IF sorted = << >> THEN << x >>
  ELSE IF LineCompare(x, sorted[Len(sorted)]) < 0
       THEN InsertLine(SubSeq(sorted, 1, Len(sorted) - 1), x)
              \o << sorted[Len(sorted)] >>
       ELSE sorted \o << x >>

RECURSIVE ArraySort(_)
ArraySort(xs) ==
  IF xs = << >> THEN << >>
  ELSE InsertLine(ArraySort(SubSeq(xs, 1, Len(xs) - 1)), xs[Len(xs)])

\* the callback of lines.map
RenderLine(line) ==
  LET prefix == IF line.line_type = "heading" THEN "### " ELSE ""
      commentTag == IF line.comments_count > 0
                    THEN " [" \o ToString(line.comments_count) \o " comments]"
                    ELSE ""
  IN  prefix \o line.content \o commentTag

\* the callback of reactions.map
RenderReaction(r) == "- " \o r.reaction_type \o " by " \o r.user.display_name

\* the array idea.lines holds when formatIdeaDetail returns: sort works in
\* place and is called only when there is a line
LinesAfterFormat(idea) ==
  IF Len(idea.lines) > 0 THEN ArraySort(idea.lines) ELSE idea.lines

\* the object `idea` refers to when formatIdeaDetail returns
IdeaAfterFormat(idea) == [idea EXCEPT !.lines = LinesAfterFormat(idea)]

\* the text formatIdeaDetail returns
FormatIdeaDetail(idea) ==
  LET header ==
        Join(<< "# " \o idea.title,
                "",
                "ID: " \o ToString(idea.id),
                "Stage: " \o idea.current_stage \o " | Visibility: " \o idea.visibility,
                "Author: " \o idea.user.display_name,
                "Reactions: " \o ToString(idea.reactions_count),
                "Created: " \o idea.created_at \o " | Updated: " \o idea.updated_at >>,
             "\n")
      content ==
        IF Len(idea.lines) > 0
        THEN "\n\n## Content\n\n"
               \o Join([k \in 1..Len(idea.lines) |->
                         RenderLine(LinesAfterFormat(idea)[k])], "\n\n")
        ELSE "\n\n(No content yet)"
      reactions ==
        IF Len(idea.reactions) > 0
        THEN "\n\n## Reactions\n\n"
               \o Join([k \in 1..Len(idea.reactions) |->
                         RenderReaction(idea.reactions[k])], "\n")
        ELSE ""
  IN  header \o content \o reactions

\* ------------------------------------------------------------------------
\* Parameter schemas (zod)
\* ------------------------------------------------------------------------

\* .default(def): an absent argument takes the default
WithDefault(v, def) == IF v.type = "undefined" THEN def ELSE v

\* a schema written with .nonnegative() in place of .positive()
ZNonNegativeInt(v) == v.type = "number" /\ v.n % v.d = 0 /\ v.n >= 0

\* z.number().int().positive()
ZPositiveInt(v) == v.type = "number" /\ v.n % v.d = 0 /\ v.n > 0

\* .max(m)
ZMax(v, m) == v.n <= m * v.d

\* schema of list_ideas: success flag and the parsed parameters
ListIdeasSchema(args) ==
  LET page == WithDefault(args.page, Num(1))
      per_page == WithDefault(args.per_page, Num(20))
  IN  [success |-> /\ ZPositiveInt(page)
                   /\ ZPositiveInt(per_page) /\ ZMax(per_page, 100),
       data |-> [page |-> page, per_page |-> per_page]]

\* schema of get_idea
GetIdeaSchema(args) ==
  [success |-> ZPositiveInt(args.idea_id),
   data |-> [idea_id |-> args.idea_id]]

\* schema of create_idea
CreateIdeaSchema(args) ==
  LET visibility == WithDefault(args.visibility, Str("public"))
  IN  [success |-> /\ args.title.type = "string" /\ Len(args.title.s) >= 1
                   /\ args.content.type \in {"string", "undefined"}
                   /\ visibility.type = "string"
                   /\ visibility.s \in {"public", "private"},
       data |-> [title |-> args.title, content |-> args.content,
                 visibility |-> visibility]]

\* the schema registered with the tool
ToolSchema(tool, args) ==
  CASE tool = "list_ideas" -> ListIdeasSchema(args)
    [] tool = "get_idea" -> GetIdeaSchema(args)
    [] tool = "create_idea" -> CreateIdeaSchema(args)

\* ------------------------------------------------------------------------
\* State
\* ------------------------------------------------------------------------

VARIABLES
  env,           \* process.env: TANEBI_API_KEY and TANEBI_API_BASE_URL
  API_KEY,       \* module constant read at startup
  API_BASE_URL,  \* module constant read at startup
  pc,            \* position of the module's top-level code
  tools,         \* names of the tools registered with the server
  connected,     \* the stdio transport is connected
  exitCode,      \* argument of process.exit, NotExited while the process runs
  stderr,        \* what console.error wrote
  call,          \* the tool invocations received: tool name and arguments
  status,        \* per invocation: rejected, awaiting, done, failed
  requests,      \* per invocation: the fetch calls made for it
  response,      \* per invocation: what fetch settled with
  data,          \* per invocation: the parsed body the handler holds at its end
  results,       \* per invocation: the results sent back to the host
  settledBefore, \* per invocation: the invocations answered when it arrived
  fIdea,         \* formatter harness: the object given to the formatter
  fOrig,         \* formatter harness: that object as first built
  fKind,         \* formatter harness: which formatter is applied
  fOut           \* formatter harness: the texts returned so far

serverVars == << env, API_KEY, API_BASE_URL, pc, tools, connected, exitCode,
                 stderr >>
invVars == << call, status, requests, response, data, results, settledBefore >>
fmtVars == << fIdea, fOrig, fKind, fOut >>
vars == << env, API_KEY, API_BASE_URL, pc, tools, connected, exitCode,
           stderr, call, status, requests, response, data, results,
           settledBefore, fIdea, fOrig, fKind, fOut >>

NotExited == -1

\* ------------------------------------------------------------------------
\* Configuration
\* ------------------------------------------------------------------------

DefaultBaseUrl == "https://tanebi.app"

\* process.env.TANEBI_API_BASE_URL?.replace(/\/+$/, "") || "https://tanebi.app"
BaseUrlOf(v) ==
  IF v.type = "undefined" THEN DefaultBaseUrl
  ELSE IF StripTrailingSlashes(v.s) = "" THEN DefaultBaseUrl
  ELSE StripTrailingSlashes(v.s)

\* a key check that tests only for undefined
KeyMissingUndefinedOnly(key) == key.type = "undefined"

\* the test !API_KEY
KeyMissing(key) == ~Truthy(key)

KeyDiagnostic ==
  "Error: TANEBI_API_KEY environment variable is required.\n"
    \o "Generate an API key from the Tanebi iOS app settings."

\* ------------------------------------------------------------------------
\* API client
\* ------------------------------------------------------------------------

\* options of a call apiRequest(path) without a second argument
NoOptions == [method |-> Undefined, hasBody |-> FALSE, body |-> << >>]

\* JSON.stringify of a string or a number
JSONValue(v) ==
  IF v.type = "string" THEN "\"" \o v.s \o "\"" ELSE ToString(v.n)

JSONEntry(e) == "\"" \o e[1] \o "\":" \o JSONValue(e[2])

\* JSON.stringify of an object, given as its entries in insertion order;
\* entries whose value is undefined are left out
JSONStringify(obj) ==
  LET defined == SelectSeq(obj, LAMBDA e : e[2].type # "undefined")
  IN  "{" \o Join([k \in 1..Len(defined) |-> JSONEntry(defined[k])], ",")
          \o "}"

\* a headers object shared by all calls: Content-Type stays set once a
\* request with a body was made
RequestHeadersShared(hasBody) ==
  { << "X-API-Key", API_KEY.s >>, << "Accept", "application/json" >> }
    \cup (IF \/ hasBody
             \/ \E j \in 1..Len(requests) : \E k \in 1..Len(requests[j]) :
                  requests[j][k].body.type # "undefined"
          THEN { << "Content-Type", "application/json" >> } ELSE {})

\* the headers object built by apiRequest
RequestHeaders(hasBody) ==
  { << "X-API-Key", API_KEY.s >>, << "Accept", "application/json" >> }
    \cup (IF hasBody THEN { << "Content-Type", "application/json" >> } ELSE {})

\* the arguments of the fetch call of apiRequest
ApiRequestFetch(path, options) ==
  [url |-> API_BASE_URL \o path,
   method |-> WithDefault(options.method, Str("GET")).s,
   headers |-> RequestHeaders(options.hasBody),
   body |-> IF options.hasBody THEN Str(JSONStringify(options.body))
            ELSE Undefined]

\* response.ok
ResponseOk(resp) == resp.status \in 200..299

\* an apiRequest whose error message leaves the response body out
ApiRequestOutcomeNoBody(resp) ==
  IF resp.kind = "rejected"
  THEN [threw |-> TRUE, message |-> resp.text, value |-> resp.json]
  ELSE IF ~ResponseOk(resp)
  THEN [threw |-> TRUE,
        message |-> "API request failed: " \o ToString(resp.status) \o " "
                      \o resp.statusText,
        value |-> resp.json]
  ELSE [threw |-> FALSE, message |-> "", value |-> resp.json]

\* how apiRequest ends once fetch has settled with resp: it throws an Error
\* with a message or returns the parsed body
ApiRequestOutcome(resp) ==
  IF resp.kind = "rejected"
  THEN [threw |-> TRUE, message |-> resp.text, value |-> resp.json]
  ELSE IF ~ResponseOk(resp)
  THEN [threw |-> TRUE,
        message |-> "API request failed: " \o ToString(resp.status) \o " "
                      \o resp.statusText \o " - " \o resp.text,
        value |-> resp.json]
  ELSE [threw |-> FALSE, message |-> "", value |-> resp.json]

\* ------------------------------------------------------------------------
\* Tool handlers
\* ------------------------------------------------------------------------

\* a path with the two values exchanged
ListIdeasPathSwapped(p) ==
  "/api/v1/ideas?page=" \o ToString(p.per_page.n)
    \o "&per_page=" \o ToString(p.page.n)

\* path of the list_ideas request
ListIdeasPath(p) ==
  "/api/v1/ideas?page=" \o ToString(p.page.n)
    \o "&per_page=" \o ToString(p.per_page.n)

\* path of the get_idea request
GetIdeaPath(p) == "/api/v1/ideas/" \o ToString(p.idea_id.n)

\* a body that gets content whenever it is not undefined
CreateIdeaBodyWhenDefined(p) ==
  << << "title", p.title >>, << "visibility", p.visibility >> >>
    \o (IF p.content.type # "undefined"
        THEN << << "content", p.content >> >> ELSE << >>)

\* the body object of create_idea: content is set only when truthy
CreateIdeaBody(p) ==
  << << "title", p.title >>, << "visibility", p.visibility >> >>
    \o (IF Truthy(p.content) THEN << << "content", p.content >> >> ELSE << >>)

\* a handler that sends its request a second time
HandlerFetchesTwice(tool, p) ==
  LET path == CASE tool = "list_ideas" -> ListIdeasPath(p)
                [] tool = "get_idea" -> GetIdeaPath(p)
                [] tool = "create_idea" -> "/api/v1/ideas"
      options == IF tool = "create_idea"
                 THEN [method |-> Str("POST"), hasBody |-> TRUE,
                       body |-> CreateIdeaBody(p)]
                 ELSE NoOptions
  IN  << ApiRequestFetch(path, options), ApiRequestFetch(path, options) >>

\* the fetch calls a handler makes, from its parsed parameters p, before it
\* suspends
HandlerFetches(tool, p) ==
  CASE tool = "list_ideas" ->
         << ApiRequestFetch(ListIdeasPath(p), NoOptions) >>
    [] tool = "get_idea" ->
         << ApiRequestFetch(GetIdeaPath(p), NoOptions) >>
    [] tool = "create_idea" ->
         << ApiRequestFetch("/api/v1/ideas",
                            [method |-> Str("POST"), hasBody |-> TRUE,
                             body |-> CreateIdeaBody(p)]) >>

\* "idea" in data ? data.idea : data
UnwrapIdea(d) == IF "idea" \in DOMAIN d THEN d.idea ELSE d

\* text of the list_ideas result
ListIdeasText(d) ==
  LET summaries == Join([k \in 1..Len(d.ideas) |->
                               FormatIdeaSummary(d.ideas[k])], "\n\n")
      pagination == "\nPage " \o ToString(d.meta.current_page)
                      \o " of " \o ToString(d.meta.total_pages)
                      \o " (" \o ToString(d.meta.total_count) \o " total ideas)"
  IN  summaries \o "\n" \o pagination

\* text of the result a handler returns for the parsed body d
HandlerText(tool, d) ==
  CASE tool = "list_ideas" -> ListIdeasText(d)
    [] tool = "get_idea" -> FormatIdeaDetail(UnwrapIdea(d))
    [] tool = "create_idea" ->
         "Idea created successfully!\n\n" \o FormatIdeaDetail(UnwrapIdea(d))

\* handlers that take the parsed body for the idea without looking for the
\* `idea` key: on a wrapped body idea.lines is undefined and the handler
\* throws
HandlerResultNoUnwrap(tool, out) ==
  IF out.threw THEN [isError |-> TRUE, text |-> out.message]
  ELSE IF tool # "list_ideas" /\ "idea" \in DOMAIN out.value
  THEN [isError |-> TRUE,
        text |-> "Cannot read properties of undefined (reading 'length')"]
  ELSE [isError |-> FALSE, text |-> HandlerText(tool, out.value)]

\* the result the host gets once apiRequest has ended with out: the text of
\* the handler, or the message of the error apiRequest threw
HandlerResult(tool, out) ==
  IF out.threw THEN [isError |-> TRUE, text |-> out.message]
  ELSE [isError |-> FALSE, text |-> HandlerText(tool, out.value)]

\* the parsed body as the handler leaves it: formatIdeaDetail has sorted the
\* lines of the idea it was given
DataAfterHandler(tool, d) ==
  IF tool = "list_ideas" THEN d
  ELSE IF "idea" \in DOMAIN d THEN [idea |-> IdeaAfterFormat(d.idea)]
  ELSE IdeaAfterFormat(d)

\* ------------------------------------------------------------------------
\* Inputs: environments, tool calls of the host, responses of the remote API
\* ------------------------------------------------------------------------

MkEnv(key, base) == [TANEBI_API_KEY |-> key, TANEBI_API_BASE_URL |-> base]

Envs ==
  { MkEnv(Undefined, Undefined),
    MkEnv(Str(""), Str("http://localhost:3000//")),
    MkEnv(Str("key-1"), Str("http://localhost:3000//")) }

User1 == [id |-> 7, display_name |-> "Aoi"]
User2 == [id |-> 8, display_name |-> "Ren"]

Summary1 ==
  [id |-> 1, title |-> "Solar kettle", visibility |-> "public",
   current_stage |-> "seed", reactions_count |-> 3, comments_count |-> 2,
   created_at |-> "2024-01-01", updated_at |-> "2024-01-02", user |-> User1]
Summary2 ==
  [id |-> 2, title |-> "Paper bike", visibility |-> "private",
   current_stage |-> "sprout", reactions_count |-> 0, comments_count |-> 0,
   created_at |-> "2024-02-01", updated_at |-> "2024-02-02", user |-> User2]

MkLine(k, position, line_type, comments_count) ==
  [id |-> k, content |-> "L" \o ToString(k), position |-> position,
   line_type |-> line_type, comments_count |-> comments_count]

MkDetail(lines, reactions) ==
  [id |-> 1, title |-> "Solar kettle", visibility |-> "public",
   current_stage |-> "seed", reactions_count |-> Len(reactions),
   created_at |-> "2024-01-01", updated_at |-> "2024-01-02", user |-> User1,
   lines |-> lines, reactions |-> reactions]

Reaction1 == [id |-> 1, reaction_type |-> "like", user |-> User2]

\* an idea whose lines arrive at positions 3, 1, 2
Detail1 ==
  MkDetail(<< MkLine(1, 3, "paragraph", 0), MkLine(2, 1, "heading", 0),
              MkLine(3, 2, "paragraph", 2) >>, << Reaction1 >>)
\* an idea without lines and reactions
Detail2 == MkDetail(<< >>, << >>)

ListCall(page, per_page) ==
  [tool |-> "list_ideas", args |-> [page |-> page, per_page |-> per_page]]
GetCall(idea_id) == [tool |-> "get_idea", args |-> [idea_id |-> idea_id]]
CreateCall(title, content, visibility) ==
  [tool |-> "create_idea",
   args |-> [title |-> title, content |-> content, visibility |-> visibility]]

ListCalls ==
  { ListCall(Undefined, Undefined), ListCall(Num(2), Num(100)),
    ListCall(Num(0), Undefined), ListCall(Undefined, Num(0)),
    ListCall(Undefined, Num(101)), ListCall(Frac(3, 2), Undefined) }
GetCalls ==
  { GetCall(Num(1)), GetCall(Num(0)), GetCall(Frac(1, 2)), GetCall(Str("1")) }
CreateCalls ==
  { CreateCall(Str("Tea"), Undefined, Undefined),
    CreateCall(Str("Tea"), Str(""), Str("private")),
    CreateCall(Str("Tea"), Str("Body"), Str("public")),
    CreateCall(Str(""), Undefined, Undefined),
    CreateCall(Str("Tea"), Undefined, Str("secret")) }
AllCalls == ListCalls \cup GetCalls \cup CreateCalls

NoData == [none |-> TRUE]
NoResponse ==
  [kind |-> "none", status |-> 0, statusText |-> "", text |-> "",
   json |-> NoData]

\* fetch resolves with a response of a success status and a JSON body
OkResponse(st, stText, json) ==
  [kind |-> "http", status |-> st, statusText |-> stText, text |-> "",
   json |-> json]
\* fetch resolves with a response of another status and a text body
ErrResponse(st, stText, text) ==
  [kind |-> "http", status |-> st, statusText |-> stText, text |-> text,
   json |-> NoData]
\* fetch rejects (no connection)
FetchRejected ==
  [kind |-> "rejected", status |-> 0, statusText |-> "",
   text |-> "fetch failed", json |-> NoData]

Err422 == ErrResponse(422, "Unprocessable Entity", "{\"error\":\"title required\"}")
Err500 == ErrResponse(500, "Internal Server Error", "boom")

ResponsesFor(tool) ==
  CASE tool = "list_ideas" ->
         { OkResponse(200, "OK",
             [ideas |-> << Summary1, Summary2 >>,
              meta |-> [current_page |-> 2, total_pages |-> 5, total_count |-> 9]]),
           OkResponse(200, "OK",
             [ideas |-> << >>,
              meta |-> [current_page |-> 1, total_pages |-> 0, total_count |-> 0]]),
           Err500 }
    [] tool = "get_idea" ->
         { OkResponse(200, "OK", Detail1),
           OkResponse(200, "OK", [idea |-> Detail1]),
           FetchRejected }
    [] tool = "create_idea" ->
         { OkResponse(201, "Created", [idea |-> Detail1]),
           OkResponse(201, "Created", Detail2),
           Err422 }

\* ------------------------------------------------------------------------
\* Startup
\* ------------------------------------------------------------------------

NoFormatter ==
  /\ fIdea = Detail2
  /\ fOrig = Detail2
  /\ fKind = "none"
  /\ fOut = << >>

ProcessStart(e) ==
  /\ env = e
  /\ API_KEY = Undefined
  /\ API_BASE_URL = ""
  /\ pc = "config"
  /\ tools = {}
  /\ connected = FALSE
  /\ exitCode = NotExited
  /\ stderr = << >>
  /\ call = << >>
  /\ status = << >>
  /\ requests = << >>
  /\ response = << >>
  /\ data = << >>
  /\ results = << >>
  /\ settledBefore = << >>

Init == (\E e \in Envs : ProcessStart(e)) /\ NoFormatter

\* the process starts with the key set and the base URL left out
ConcInit == ProcessStart(MkEnv(Str("key-1"), Undefined)) /\ NoFormatter

\* lines 9-12: read the two environment values
LoadConfig ==
  /\ pc = "config"
  /\ API_KEY' = env.TANEBI_API_KEY
  /\ API_BASE_URL' = BaseUrlOf(env.TANEBI_API_BASE_URL)
  /\ pc' = "check"
  /\ UNCHANGED << env, tools, connected, exitCode, stderr, invVars, fmtVars >>

\* lines 14-20: without a key, write the diagnostic and exit with code 1
CheckKey ==
  /\ pc = "check"
  /\ IF KeyMissing(API_KEY)
     THEN /\ stderr' = Append(stderr, KeyDiagnostic)
          /\ exitCode' = 1
          /\ pc' = "exited"
     ELSE /\ pc' = "server"
          /\ UNCHANGED << stderr, exitCode >>
  /\ UNCHANGED << env, API_KEY, API_BASE_URL, tools, connected, invVars,
                  fmtVars >>

\* lines 172-175: new McpServer
CreateServer ==
  /\ pc = "server"
  /\ tools' = {}
  /\ pc' = "tool_list_ideas"
  /\ UNCHANGED << env, API_KEY, API_BASE_URL, connected, exitCode, stderr,
                  invVars, fmtVars >>

\* server.tool(name, ...): the three registrations, in the order of the file
RegisterTool(name, at, next) ==
  /\ pc = at
  /\ tools' = tools \cup { name }
  /\ pc' = next
  /\ UNCHANGED << env, API_KEY, API_BASE_URL, connected, exitCode, stderr,
                  invVars, fmtVars >>

RegisterListIdeas == RegisterTool("list_ideas", "tool_list_ideas", "tool_get_idea")
RegisterGetIdea == RegisterTool("get_idea", "tool_get_idea", "tool_create_idea")
RegisterCreateIdea == RegisterTool("create_idea", "tool_create_idea", "main")

\* main(): server.connect(transport) succeeds
Connect ==
  /\ pc = "main"
  /\ connected' = TRUE
  /\ pc' = "running"
  /\ UNCHANGED << env, API_KEY, API_BASE_URL, tools, exitCode, stderr,
                  invVars, fmtVars >>

\* main(): server.connect(transport) throws, the catch handler exits
ConnectFails ==
  /\ pc = "main"
  /\ stderr' = Append(stderr, "Failed to start MCP server:")
  /\ exitCode' = 1
  /\ pc' = "exited"
  /\ UNCHANGED << env, API_KEY, API_BASE_URL, tools, connected, invVars,
                  fmtVars >>

\* ------------------------------------------------------------------------
\* Tool invocations
\* ------------------------------------------------------------------------

\* a tool can be called: it is registered and the transport is connected
Callable(tool) == pc = "running" /\ connected /\ tool \in tools

\* the host calls a tool: the arguments are validated against the schema;
\* invalid arguments are answered with an error, valid ones start the
\* handler, which runs up to its await of the HTTP response
CallTool(c, max) ==
  /\ Callable(c.tool)
  /\ Len(call) < max
  /\ LET parsed == ToolSchema(c.tool, c.args)
     IN  IF parsed.success
         THEN /\ status' = Append(status, "awaiting")
              /\ requests' = Append(requests, HandlerFetches(c.tool, parsed.data))
              /\ results' = Append(results, << >>)
         ELSE /\ status' = Append(status, "rejected")
              /\ requests' = Append(requests, << >>)
              /\ results' = Append(results,
                   << [isError |-> TRUE,
                       text |-> "Invalid arguments for tool " \o c.tool] >>)
  /\ call' = Append(call, c)
  /\ response' = Append(response, NoResponse)
  /\ data' = Append(data, NoData)
  /\ settledBefore' = Append(settledBefore,
                             { j \in 1..Len(status) : status[j] # "awaiting" })
  /\ UNCHANGED << serverVars, fmtVars >>

\* fetch settles for invocation i: apiRequest throws or returns, the handler
\* formats the parsed body, and the result goes back to the host
FetchSettles(i, r) ==
  /\ pc = "running"
  /\ i \in 1..Len(call)
  /\ status[i] = "awaiting"
  /\ r \in ResponsesFor(call[i].tool)
  /\ response' = [response EXCEPT ![i] = r]
  /\ LET out == ApiRequestOutcome(r)
         res == HandlerResult(call[i].tool, out)
     IN  /\ results' = [results EXCEPT ![i] = Append(@, res)]
         /\ status' = [status EXCEPT ![i] =
                         IF res.isError THEN "failed" ELSE "done"]
         /\ data' = [data EXCEPT ![i] =
                       IF out.threw THEN @
                       ELSE DataAfterHandler(call[i].tool, out.value)]
  /\ UNCHANGED << serverVars, call, requests, settledBefore, fmtVars >>

Next ==
  \/ LoadConfig
  \/ CheckKey
  \/ CreateServer
  \/ RegisterListIdeas
  \/ RegisterGetIdea
  \/ RegisterCreateIdea
  \/ Connect
  \/ ConnectFails
  \/ \E c \in AllCalls : CallTool(c, MaxInv)
  \/ \E i \in 1..Len(call) : \E r \in ResponsesFor(call[i].tool) : FetchSettles(i, r)

Spec == Init /\ [][Next]_vars

\* ------------------------------------------------------------------------
\* Concurrent invocations: the same program, driven with more invocations
\* of fewer distinct calls
\* ------------------------------------------------------------------------

\* number of tool invocations in one run of ConcSpec
MaxConc == 3

ConcCalls ==
  { GetCall(Num(1)), CreateCall(Str("Tea"), Str("Body"), Str("public")) }

ConcNext ==
  \/ LoadConfig
  \/ CheckKey
  \/ CreateServer
  \/ RegisterListIdeas
  \/ RegisterGetIdea
  \/ RegisterCreateIdea
  \/ Connect
  \/ ConnectFails
  \/ \E c \in ConcCalls : CallTool(c, MaxConc)
  \/ \E i \in 1..Len(call) : \E r \in ResponsesFor(call[i].tool) : FetchSettles(i, r)

ConcSpec == ConcInit /\ [][ConcNext]_vars

\* ------------------------------------------------------------------------
\* Formatter harness: a formatter applied, up to MaxCalls times, to one
\* idea object
\* ------------------------------------------------------------------------

LineShapes == (1..MaxPos) \X { "heading", "paragraph" }

\* the arrays of up to MaxLines lines; line k has id k and content "Lk",
\* and the lines of odd index have two comments
LineArrays ==
  UNION { { [k \in 1..n |-> MkLine(k, f[k][1], f[k][2], 2 * (k % 2))] :
            f \in [1..n -> LineShapes] } : n \in 0..MaxLines }

DetailInputs ==
  { MkDetail(ls, rs) : ls \in LineArrays, rs \in { << >>, << Reaction1 >> } }

SummaryInputs == { Summary1, Summary2 }

FormatInit ==
  /\ ProcessStart(MkEnv(Str("key-1"), Undefined))
  /\ \/ fKind = "detail" /\ fIdea \in DetailInputs
     \/ fKind = "summary" /\ fIdea \in SummaryInputs
  /\ fOrig = fIdea
  /\ fOut = << >>

\* text = formatIdeaDetail(idea): the text is returned and idea.lines is
\* left sorted
CallFormatIdeaDetail ==
  /\ fKind = "detail"
  /\ Len(fOut) < MaxCalls
  /\ fOut' = Append(fOut, FormatIdeaDetail(fIdea))
  /\ fIdea' = IdeaAfterFormat(fIdea)
  /\ UNCHANGED << fOrig, fKind, serverVars, invVars >>

\* text = formatIdeaSummary(idea)
CallFormatIdeaSummary ==
  /\ fKind = "summary"
  /\ Len(fOut) < MaxCalls
  /\ fOut' = Append(fOut, FormatIdeaSummary(fIdea))
  /\ UNCHANGED << fIdea, fOrig, fKind, serverVars, invVars >>

FormatNext == CallFormatIdeaDetail \/ CallFormatIdeaSummary

FormatSpec == FormatInit /\ [][FormatNext]_vars

\* ------------------------------------------------------------------------
\* Properties
\* ------------------------------------------------------------------------

\* the invocations received so far
Invocations == 1..Len(call)

\* TANEBI_API_KEY is absent from the environment or empty
EnvKeyAbsentOrEmpty ==
  env.TANEBI_API_KEY.type = "undefined" \/ env.TANEBI_API_KEY.s = ""

\* C1: when TANEBI_API_KEY is absent or empty, the process writes the
\* diagnostic and exits with code 1 once the key is checked; no tool is ever
\* registered, the transport is never connected, no tool is callable and no
\* HTTP request is sent.
C1_MissingKeyNeverServes ==
  EnvKeyAbsentOrEmpty =>
    /\ tools = {}
    /\ ~connected
    /\ \A t \in { "list_ideas", "get_idea", "create_idea" } : ~Callable(t)
    /\ call = << >>
    /\ requests = << >>
    /\ pc \in { "config", "check", "exited" }
    /\ pc = "exited" => exitCode = 1 /\ stderr = << KeyDiagnostic >>
    /\ pc # "exited" => exitCode = NotExited

\* the process was started with an empty key and has exited
C1_Witness ==
  /\ env.TANEBI_API_KEY = Str("")
  /\ pc = "exited"
  /\ exitCode = 1

\* the response of invocation i has a status outside 200..299
NonSuccessResponse(i) ==
  response[i].kind = "http" /\ ~(response[i].status \in 200..299)

\* the response of invocation i has a status in 200..299
SuccessResponse(i) ==
  response[i].kind = "http" /\ response[i].status \in 200..299

\* C2: an invocation answered with a non-2xx status fails with one error
\* whose message contains the status code, the status text and the raw body;
\* an invocation fails only on its own response; the process keeps running
\* with every tool callable, and an invocation answered with a 2xx status
\* succeeds whatever failed before it.
C2_NonSuccessFailsOnlyThatCall ==
  \A i \in Invocations :
    /\ NonSuccessResponse(i) =>
         /\ status[i] = "failed"
         /\ Len(results[i]) = 1
         /\ results[i][1].isError
         /\ Contains(results[i][1].text, ToString(response[i].status))
         /\ Contains(results[i][1].text, response[i].statusText)
         /\ Contains(results[i][1].text, response[i].text)
         /\ exitCode = NotExited
         /\ \A t \in { "list_ideas", "get_idea", "create_idea" } : Callable(t)
    /\ SuccessResponse(i) =>
         /\ status[i] = "done"
         /\ Len(results[i]) = 1
         /\ ~results[i][1].isError
    /\ status[i] = "failed" => response[i].kind # "none" /\ ~SuccessResponse(i)

\* an invocation failed on a 422 response, and an invocation that arrived
\* after that failure was reported has succeeded
C2_Witness ==
  \E i, j \in Invocations :
    /\ NonSuccessResponse(i)
    /\ response[i].status = 422
    /\ status[i] = "failed"
    /\ i \in settledBefore[j]
    /\ SuccessResponse(j)
    /\ status[j] = "done"

\* v is given and is an integer
GivenInteger(v) == v.type = "number" /\ v.n % v.d = 0

\* the arguments of call c violate the schema of its tool in one of the ways
\* the specification lists
ViolatesSchema(c) ==
  CASE c.tool = "list_ideas" ->
         \/ /\ c.args.page.type # "undefined"
            /\ ~(GivenInteger(c.args.page) /\ c.args.page.n >= 1)
         \/ /\ c.args.per_page.type # "undefined"
            /\ ~(/\ GivenInteger(c.args.per_page)
                 /\ c.args.per_page.n >= 1
                 /\ c.args.per_page.n <= 100)
    [] c.tool = "get_idea" ->
         ~(GivenInteger(c.args.idea_id) /\ c.args.idea_id.n >= 1)
    [] c.tool = "create_idea" ->
         \/ c.args.title = Str("")
         \/ /\ c.args.visibility.type # "undefined"
            /\ c.args.visibility \notin { Str("public"), Str("private") }

\* C3: an invocation whose arguments violate the schema of its tool is
\* rejected with an error: its handler does not run, no HTTP request is made
\* for it and no response is awaited.
C3_InvalidArgumentsSendNothing ==
  \A i \in Invocations :
    ViolatesSchema(call[i]) =>
      /\ status[i] = "rejected"
      /\ requests[i] = << >>
      /\ response[i] = NoResponse
      /\ data[i] = NoData
      /\ Len(results[i]) = 1
      /\ results[i][1].isError

\* list_ideas was called with page 0 and get_idea with a fraction, and both
\* were rejected
C3_Witness ==
  \E i, j \in Invocations :
    /\ call[i] = ListCall(Num(0), Undefined)
    /\ status[i] = "rejected"
    /\ call[j] = GetCall(Frac(1, 2))
    /\ status[j] = "rejected"

\* C4: an invocation that passes validation has exactly one HTTP request at
\* every moment from its start on, whether it is awaiting, has succeeded or
\* has failed; it has no result while it awaits and exactly one once it has
\* succeeded or failed.
C4_OneRequestOneReport ==
  \A i \in Invocations :
    status[i] # "rejected" =>
      /\ Len(requests[i]) = 1
      /\ status[i] = "awaiting" => results[i] = << >>
      /\ status[i] = "failed" => Len(results[i]) = 1 /\ results[i][1].isError
      /\ status[i] = "done" => Len(results[i]) = 1 /\ ~results[i][1].isError

\* one invocation has failed and another has succeeded, each with one request
C4_Witness ==
  \E i, j \in Invocations :
    /\ status[i] = "failed"
    /\ Len(requests[i]) = 1
    /\ status[j] = "done"
    /\ Len(requests[j]) = 1

\* C5: the formatters leave their argument as it was, the order of
\* idea.lines included, and every call on the same idea returns the same
\* text.
C5_FormattersLeaveArgument ==
  /\ fIdea = fOrig
  /\ \A k \in 1..Len(fOut) : fOut[k] = fOut[1]

\* a step leaves every invocation that exists as it is, but for the one
\* awaiting invocation that the step settles
OthersUntouched ==
  \A i \in Invocations :
    /\ call'[i] = call[i]
    /\ requests'[i] = requests[i]
    /\ settledBefore'[i] = settledBefore[i]
    /\ \/ status[i] = "awaiting"
          /\ \A j \in Invocations \ { i } :
               << status'[j], response'[j], data'[j], results'[j] >>
                 = << status[j], response[j], data[j], results[j] >>
       \/ << status'[i], response'[i], data'[i], results'[i] >>
            = << status[i], response[i], data[i], results[i] >>

\* two invocations of the same call have the same request, and the same
\* outcome when they got the same response; every request carries the key
\* and the base URL read at startup
SameCallSameRequest ==
  \A i, j \in Invocations :
    /\ call[i] = call[j] =>
         /\ requests[i] = requests[j]
         /\ response[i] = response[j] =>
              << status[i], results[i], data[i] >>
                = << status[j], results[j], data[j] >>
    /\ \A k \in 1..Len(requests[i]) :
         /\ << "X-API-Key", env.TANEBI_API_KEY.s >> \in requests[i][k].headers
         /\ SubSeq(requests[i][k].url, 1, Len(API_BASE_URL)) = API_BASE_URL
         /\ API_BASE_URL = BaseUrlOf(env.TANEBI_API_BASE_URL)

\* C6: under every interleaving of calls and responses, the request and the
\* outcome of an invocation are the same for the same call and the same
\* response, whatever else is in flight, with the configuration read at
\* startup; a step of one invocation changes nothing of another.
C6_InvocationsIndependent == [](SameCallSameRequest) /\ [][OthersUntouched]_vars

\* three invocations were in flight at once, the first and the third the
\* same get_idea call with a create_idea between them, and all three are
\* done
C6_Witness ==
  /\ Len(call) = 3
  /\ call[1] = GetCall(Num(1))
  /\ call[2].tool = "create_idea"
  /\ call[3] = call[1]
  /\ settledBefore[3] = {}
  /\ \A i \in 1..3 : status[i] = "done"
  /\ response[1] = response[3]

\* the fixed message create_idea puts before the detail text
ResultPrefix(tool) ==
  IF tool = "create_idea" THEN "Idea created successfully!\n\n" ELSE ""

\* C7: get_idea and create_idea give the formatted detail text of the idea,
\* whether the 2xx body is the idea itself or holds it under the key `idea`;
\* create_idea puts the fixed success message before it in both cases.
C7_WrappedOrDirectSameText ==
  \A i \in Invocations :
    \A d \in { Detail1, Detail2 } :
      /\ call[i].tool \in { "get_idea", "create_idea" }
      /\ SuccessResponse(i)
      /\ response[i].json = d \/ response[i].json = [idea |-> d]
      => /\ status[i] = "done"
         /\ results[i] =
              << [isError |-> FALSE,
                  text |-> ResultPrefix(call[i].tool) \o FormatIdeaDetail(d)] >>

\* a get_idea answered with the idea itself and a create_idea answered with
\* the same idea under `idea` are both done
C7_Witness ==
  \E i, j \in Invocations :
    /\ call[i].tool = "get_idea"
    /\ response[i].json = Detail1
    /\ status[i] = "done"
    /\ call[j].tool = "create_idea"
    /\ response[j].json = [idea |-> Detail1]
    /\ status[j] = "done"

\* the number of places where t occurs in s
Occurrences(s, t) ==
  Cardinality({ k \in 0..(Len(s) - Len(t)) : SubSeq(s, k + 1, k + Len(t)) = t })

\* the orders of 1..n
Orders(n) == { p \in [1..n -> 1..n] : \A a, b \in 1..n : a # b => p[a] # p[b] }

\* p lists the lines by ascending position, lines of equal position by
\* ascending index
ByPositionThenIndex(lines, p) ==
  \A a, b \in 1..Len(lines) :
    a < b =>
      \/ lines[p[a]].position < lines[p[b]].position
      \/ /\ lines[p[a]].position = lines[p[b]].position
         /\ p[a] < p[b]

\* C8: for an idea with at least one line, the content section of the text
\* of formatIdeaDetail holds the rendered lines in ascending order of
\* position, lines of equal position in their input order, and every input
\* line is rendered exactly once.
C8_LinesRenderedByPosition ==
  (fKind = "detail" /\ Len(fOut) >= 1 /\ Len(fOrig.lines) > 0) =>
    /\ \E p \in Orders(Len(fOrig.lines)) :
         /\ ByPositionThenIndex(fOrig.lines, p)
         /\ Contains(fOut[1],
              "\n\n## Content\n\n"
                \o Join([k \in 1..Len(fOrig.lines) |->
                           RenderLine(fOrig.lines[p[k]])], "\n\n"))
    /\ \A k \in 1..Len(fOrig.lines) :
         Occurrences(fOut[1], fOrig.lines[k].content) = 1

\* formatIdeaDetail was applied to an idea whose lines came at positions
\* 3, 1, 1
C8_Witness ==
  /\ fKind = "detail"
  /\ Len(fOut) >= 1
  /\ Len(fOrig.lines) = 3
  /\ fOrig.lines[1].position = 3
  /\ fOrig.lines[2].position = 1
  /\ fOrig.lines[3].position = 1

\* the JSON text of the body create_idea is to send for arguments a
ExpectedCreateBody(a) ==
  "{\"title\":\"" \o a.title.s \o "\",\"visibility\":\""
    \o (IF a.visibility.type = "undefined" THEN "public" ELSE a.visibility.s)
    \o "\""
    \o (IF a.content.type = "undefined" \/ a.content = Str("")
        THEN ""
        ELSE ",\"content\":\"" \o a.content.s \o "\"")
    \o "}"

\* C9: create_idea sends one POST to /api/v1/ideas whose JSON body has the
\* keys title and visibility alone when content is absent or empty, and
\* title, visibility and content when content is a non-empty string; the
\* body never has a content key with an empty value.
C9_CreateBodyKeys ==
  \A i \in Invocations :
    (call[i].tool = "create_idea" /\ status[i] # "rejected") =>
      /\ Len(requests[i]) = 1
      /\ requests[i][1].method = "POST"
      /\ requests[i][1].url = API_BASE_URL \o "/api/v1/ideas"
      /\ requests[i][1].body = Str(ExpectedCreateBody(call[i].args))
      /\ ~Contains(requests[i][1].body.s, "\"content\":\"\"")
      /\ Occurrences(requests[i][1].body.s, "\"content\":")
           = (IF Truthy(call[i].args.content) THEN 1 ELSE 0)

\* create_idea was called with the empty string as content and has sent its
\* request
C9_Witness ==
  \E i \in Invocations :
    /\ call[i].tool = "create_idea"
    /\ call[i].args.content = Str("")
    /\ Len(requests[i]) = 1

\* the footer of a list_ideas result
ExpectedFooter(meta) ==
  "Page " \o ToString(meta.current_page) \o " of " \o ToString(meta.total_pages)
    \o " (" \o ToString(meta.total_count) \o " total ideas)"

\* s ends with t
EndsWith(s, t) ==
  Len(s) >= Len(t) /\ SubSeq(s, Len(s) - Len(t) + 1, Len(s)) = t

\* C10: a valid list_ideas call sends one GET to /api/v1/ideas with the
\* query parameters page and per_page of the call (1 and 20 when left out)
\* and no body; on a 2xx response its text holds the summaries of the ideas
\* of the response in response order and ends with the footer built from
\* the meta of the response.
C10_ListRequestAndText ==
  \A i \in Invocations :
    (call[i].tool = "list_ideas" /\ status[i] # "rejected") =>
      LET page == IF call[i].args.page.type = "undefined" THEN 1
                  ELSE call[i].args.page.n
          per_page == IF call[i].args.per_page.type = "undefined" THEN 20
                      ELSE call[i].args.per_page.n
      IN  /\ page >= 1 /\ per_page >= 1 /\ per_page <= 100
          /\ Len(requests[i]) = 1
          /\ requests[i][1].method = "GET"
          /\ requests[i][1].body = Undefined
          /\ requests[i][1].url =
               API_BASE_URL \o "/api/v1/ideas?page=" \o ToString(page)
                 \o "&per_page=" \o ToString(per_page)
          /\ SuccessResponse(i) =>
               /\ status[i] = "done"
               /\ Contains(results[i][1].text,
                    Join([k \in 1..Len(response[i].json.ideas) |->
                            FormatIdeaSummary(response[i].json.ideas[k])],
                         "\n\n")
                      \o "\n\n" \o ExpectedFooter(response[i].json.meta))
               /\ EndsWith(results[i][1].text,
                           ExpectedFooter(response[i].json.meta))

\* list_ideas was called with page 2 and per_page 100 and has returned the
\* text of a response with two ideas
C10_Witness ==
  \E i \in Invocations :
    /\ call[i] = ListCall(Num(2), Num(100))
    /\ status[i] = "done"
    /\ Len(response[i].json.ideas) = 2
====
